---- MODULE Spec2Model ----
(***************************************************************************)
(* The verification-game (VG) reactor of compute/src/vg.rs as a state      *)
(* machine: a snapshot of the on-chain VG instance (re-fetched between     *)
(* ticks), the archive handle, and the outcome of the last VG::react.      *)
(* Before the first tick Dispatcher::new (dispatcher/src/lib.rs) loads the *)
(* configuration (configuration/src/lib.rs) and sends its instantiate      *)
(* request; that construction is a second state machine, SpecNew.          *)
(***************************************************************************)
EXTENDS Integers, Sequences, FiniteSets, TLC

VARIABLES instance, archive, reaction, proposed,
          pc, read, merged, config, main_concern

vars == <<instance, archive, reaction, proposed,
          pc, read, merged, config, main_concern>>

\* the state of the reactor, and the state of Dispatcher::new
vgVars == <<instance, archive, reaction, proposed>>

newVars == <<pc, read, merged, config, main_concern>>

(***************************************************************************)
(* Bounds of the model.                                                    *)
(***************************************************************************)
\* instance.index ranges over 1..MaxIndex
MaxIndex == 2
\* longest sub_instances sequence of a snapshot
MaxSubs == 2

(***************************************************************************)
(* Values the snapshots are built from.                                    *)
(***************************************************************************)
Addresses == {"addrA", "addrB", "addrC"}

ContractAddress == "addrVG"

Indices == 1..MaxIndex

\* current_state strings of a VG instance; the last one is not a state the
\* reactor knows.
VGKnownStates ==
    {"WaitPartition", "WaitMemoryProveValues",
     "FinishedClaimerWon", "FinishedChallengerWon"}

VGStates == VGKnownStates \cup {"Unrecognized"}

\* the six uint values of a VG state, all positions distinct
UintArrays == {<<11, 12, 13, 14, 15, 16>>, <<26, 25, 24, 23, 22, 21>>}

PartitionStates == {"ChallengerWon", "ClaimerWon", "DivergenceFound", "WaitingQuery"}

MMStates == {"WaitingProofs", "WaitingReplay", "FinishedReplay", "Unrecognized"}

\* what the history held by the archive leads a sub-protocol reactor to do
Archives == {"quiet", "move", "broken"}

(***************************************************************************)
(* Encoded state: a JSON array of typed fields, each with a value.         *)
(***************************************************************************)
Field(ty, value) == [ty |-> ty, value |-> value]

\* field types of VGCtxParsed, in order
VGCtxParsed ==
    <<"address", "address", "address",
      "bytes32", "bytes32", "bytes32", "bytes32",
      "string32", "uint256[6]">>

\* the JSON an indexer produces for a VG instance
EncodeVG(challenger, claimer, state, uints) ==
    <<Field("address", challenger), Field("address", claimer),
      Field("address", "machine"),
      Field("bytes32", "h_initial"), Field("bytes32", "h_final"),
      Field("bytes32", "h_before"), Field("bytes32", "h_after"),
      Field("string32", state), Field("uint256[6]", uints)>>

\* serde_json::from_str into a tuple struct: the array must have one entry
\* per field, each of the field's type
ParsesAs(layout, json) ==
    /\ Len(json) = Len(layout)
    /\ \A i \in 1..Len(layout) : json[i].ty = layout[i]

ParsesAsVGCtxParsed(json) == ParsesAs(VGCtxParsed, json)

\* faulty variant of the conversion below: divergence_time read from the
\* slot of partition_instance
VGCtx_wrongSlot(parsed) ==
    [challenger |-> parsed[1].value,
     claimer |-> parsed[2].value,
     machine |-> parsed[3].value,
     initial_hash |-> parsed[4].value,
     claimer_final_hash |-> parsed[5].value,
     hash_before_divergence |-> parsed[6].value,
     hash_after_divergence |-> parsed[7].value,
     current_state |-> parsed[8].value,
     round_duration |-> parsed[9].value[1],
     final_time |-> parsed[9].value[2],
     time_of_last_move |-> parsed[9].value[3],
     mm_instance |-> parsed[9].value[4],
     partition_instance |-> parsed[9].value[5],
     divergence_time |-> parsed[9].value[5]]

\* impl From<VGCtxParsed> for VGCtx
VGCtx(parsed) ==
    [challenger |-> parsed[1].value,
     claimer |-> parsed[2].value,
     machine |-> parsed[3].value,
     initial_hash |-> parsed[4].value,
     claimer_final_hash |-> parsed[5].value,
     hash_before_divergence |-> parsed[6].value,
     hash_after_divergence |-> parsed[7].value,
     current_state |-> parsed[8].value,
     round_duration |-> parsed[9].value[1],
     final_time |-> parsed[9].value[2],
     time_of_last_move |-> parsed[9].value[3],
     mm_instance |-> parsed[9].value[4],
     partition_instance |-> parsed[9].value[5],
     divergence_time |-> parsed[9].value[6]]

\* Layouts of the Partition and MM contexts: their crates are not part of
\* the sources, only that each exposes a current_state.
PartitionCtxParsed == <<"partition_state">>

MMCtxParsed == <<"mm_state">>

PartitionCtx(parsed) == [current_state |-> parsed[1].value]

MMCtx(parsed) == [current_state |-> parsed[1].value]

(***************************************************************************)
(* Instances.                                                              *)
(***************************************************************************)
Concern(contract, user) == [contract_address |-> contract, user_address |-> user]

Instance(index, concern, json, subs) ==
    [index |-> index, concern |-> concern, json_data |-> json,
     sub_instances |-> subs]

\* encoded states that do not decode as a VG context: a truncated array and
\* an array whose currentState has the wrong type
MalformedVG ==
    {SubSeq(EncodeVG("addrA", "addrB", "WaitPartition", <<11, 12, 13, 14, 15, 16>>), 1, 8),
     [EncodeVG("addrA", "addrB", "WaitPartition", <<11, 12, 13, 14, 15, 16>>)
        EXCEPT ![8] = Field("bytes32", "h_state")]}

VGEncodings ==
    {EncodeVG(ch, cl, s, u) : ch \in Addresses, cl \in Addresses,
                              s \in VGStates, u \in UintArrays}
      \cup MalformedVG

\* sub-instance 0 candidates: a Partition instance, an MM instance, or one
\* whose encoded state decodes as neither
SubJsons ==
    {<<Field("partition_state", s)>> : s \in PartitionStates}
      \cup {<<Field("mm_state", s)>> : s \in MMStates}
      \cup {<<>>}

SubInstance(json) == Instance(0, Concern("addrSub", "addrA"), json, <<>>)

FirstSubs == {SubInstance(j) : j \in SubJsons}

\* sub-instances at positions 1 and above
TailSubs == {SubInstance(<<Field("partition_state", "WaitingQuery")>>), SubInstance(<<>>)}

RECURSIVE TailSeqs(_)
TailSeqs(n) ==
    IF n = 0 THEN {<<>>}
    ELSE TailSeqs(n - 1)
           \cup {Append(t, x) : t \in {s \in TailSeqs(n - 1) : Len(s) = n - 1},
                                x \in TailSubs}

SubInstanceSeqs ==
    IF MaxSubs = 0 THEN {<<>>}
    ELSE {<<>>} \cup {<<f>> \o t : f \in FirstSubs, t \in TailSeqs(MaxSubs - 1)}

(***************************************************************************)
(* Reactions and errors.                                                   *)
(***************************************************************************)
NoJson == <<>>

Idle == [kind |-> "Idle"]

TransactionRequest(concern, value, function, data, strategy) ==
    [concern |-> concern, value |-> value, function |-> function,
     data |-> data, strategy |-> strategy]

Transaction(request) == [kind |-> "Transaction", request |-> request]

\* ErrorKind::InvalidContractState(format!("<msg> {}", state))
InvalidContractState(msg, state) ==
    [kind |-> "Error", error |-> "InvalidContractState", msg |-> msg,
     state |-> state, payload |-> NoJson]

\* chain_err(|| format!("<msg>: {}", payload))
ChainErr(msg, payload) ==
    [kind |-> "Error", error |-> "Msg", msg |-> msg,
     state |-> "", payload |-> payload]

\* what react hands back, with the sub-protocol reactors it invoked and
\* whether it looked at sub_instances
Outcome(out, calls, consulted) ==
    [out |-> out, calls |-> calls, consulted |-> consulted]

\* ctx is the auxiliary context as a sequence: <<>> for (), <<t>> for a U256
Call(reactor, sub, arch, ctx) ==
    [reactor |-> reactor, instance |-> sub, archive |-> arch, ctx |-> ctx]

\* the auxiliary context &() of VG and Partition
Unit == <<>>

(***************************************************************************)
(* The sub-protocol reactors: external to these sources.  Each is a        *)
(* deterministic function of the sub-instance, the archive and its         *)
(* auxiliary context; what it answers is decided by the archive.           *)
(***************************************************************************)
SubReact(name, sub, arch, ctx) ==
    CASE arch = "quiet" -> Idle
      [] arch = "move" ->
           Transaction(TransactionRequest(sub.concern, 0, name,
                                          <<sub.index>> \o ctx, "Simplest"))
      [] OTHER ->
           [kind |-> "Error", error |-> name, msg |-> "sub-protocol failure",
            state |-> "", payload |-> sub.json_data]

Partition_react(sub, arch, ctx) == SubReact("Partition", sub, arch, ctx)

MM_react(sub, arch, ctx) == SubReact("MM", sub, arch, ctx)

\* faulty variant: a sub-protocol error is wrapped before it is returned
Delegate_wrapsError(reactor, sub, arch, ctx) ==
    Outcome(IF SubReact(reactor, sub, arch, ctx).kind = "Error"
            THEN ChainErr("sub-protocol reaction failed", sub.json_data)
            ELSE SubReact(reactor, sub, arch, ctx),
            <<Call(reactor, sub, arch, ctx)>>, TRUE)

\* a delegation: the sub-protocol's result, and the record of the call
Delegate(reactor, sub, arch, ctx) ==
    Outcome(IF reactor = "MM" THEN MM_react(sub, arch, ctx)
                              ELSE Partition_react(sub, arch, ctx),
            <<Call(reactor, sub, arch, ctx)>>, TRUE)

(***************************************************************************)
(* VG::react.                                                              *)
(***************************************************************************)
\* faulty variant: the request is made out for sub-instance 0
VGRequest_subInstance(inst, function) ==
    TransactionRequest(inst.sub_instances[1].concern, 0, function,
                       <<inst.sub_instances[1].index>>, "Simplest")

\* the requests VG builds: TransactionRequest { concern, value: 0, function,
\* data: vec![Token::Uint(instance.index)], strategy: Simplest }
VGRequest(inst, function) ==
    TransactionRequest(inst.concern, 0, function, <<inst.index>>, "Simplest")

\* faulty variant: only one of the two terminal states short-circuits
IsFinished_oneOnly(state) == state = "FinishedClaimerWon"

\* "FinishedClaimerWon" | "FinishedChallengerWon" => return Ok(Reaction::Idle)
IsFinished(state) == state \in {"FinishedClaimerWon", "FinishedChallengerWon"}

\* faulty variant: whoever is not the claimer is taken for the challenger
Role_defaultChallenger(user, ctx) ==
    IF user = ctx.claimer THEN "Claimer" ELSE "Challenger"

\* faulty variant: the challenger is tested for first
Role_challengerFirst(user, ctx) ==
    IF user = ctx.challenger THEN "Challenger"
    ELSE IF user = ctx.claimer THEN "Claimer"
    ELSE "Neither"

\* match instance.concern.user_address: claimer first, then challenger
Role(user, ctx) ==
    IF user = ctx.claimer THEN "Claimer"
    ELSE IF user = ctx.challenger THEN "Challenger"
    ELSE "Neither"

\* instance.sub_instances.get(0)
HasSub0(inst) == Len(inst.sub_instances) > 0

Sub0(inst) == inst.sub_instances[1]

\* faulty variant: the "DivergenceFound" arm is missing
ClaimerPartitionMatch_noDivergence(inst, arch, partition_ctx) ==
    IF partition_ctx.current_state \in {"ChallengerWon", "ClaimerWon"}
    THEN Outcome(Transaction(VGRequest(inst, "winByPartitionTimeout")), <<>>, TRUE)
    ELSE Delegate("Partition", Sub0(inst), arch, Unit)

\* faulty variant: "ChallengerWon" is not matched by the first arm
ClaimerPartitionMatch_claimerWonOnly(inst, arch, partition_ctx) ==
    IF partition_ctx.current_state = "ClaimerWon"
    THEN Outcome(Transaction(VGRequest(inst, "winByPartitionTimeout")), <<>>, TRUE)
    ELSE IF partition_ctx.current_state = "DivergenceFound"
    THEN Outcome(Transaction(VGRequest(inst, "startMachineRunChallenge")), <<>>, TRUE)
    ELSE Delegate("Partition", Sub0(inst), arch, Unit)

\* faulty variant: a running partition is left alone instead of delegated to
ClaimerPartitionMatch_runningIdle(inst, arch, partition_ctx) ==
    IF partition_ctx.current_state \in {"ChallengerWon", "ClaimerWon"}
    THEN Outcome(Transaction(VGRequest(inst, "winByPartitionTimeout")), <<>>, TRUE)
    ELSE IF partition_ctx.current_state = "DivergenceFound"
    THEN Outcome(Transaction(VGRequest(inst, "startMachineRunChallenge")), <<>>, TRUE)
    ELSE Outcome(Idle, <<>>, TRUE)

\* match partition_ctx.current_state (claimer, WaitPartition)
ClaimerPartitionMatch(inst, arch, partition_ctx) ==
    IF partition_ctx.current_state \in {"ChallengerWon", "ClaimerWon"}
    THEN Outcome(Transaction(VGRequest(inst, "winByPartitionTimeout")), <<>>, TRUE)
    ELSE IF partition_ctx.current_state = "DivergenceFound"
    THEN Outcome(Transaction(VGRequest(inst, "startMachineRunChallenge")), <<>>, TRUE)
    ELSE Delegate("Partition", Sub0(inst), arch, Unit)

\* Role::Claimer, "WaitPartition"
ClaimerWaitPartition(inst, arch, ctx) ==
    IF ~HasSub0(inst)
    THEN Outcome(InvalidContractState("There is no partition instance",
                                      ctx.current_state), <<>>, TRUE)
    ELSE IF ~ParsesAs(PartitionCtxParsed, Sub0(inst).json_data)
    THEN Outcome(ChainErr("Could not parse partition instance json_data",
                          inst.json_data), <<>>, TRUE)
    ELSE ClaimerPartitionMatch(inst, arch, PartitionCtx(Sub0(inst).json_data))

\* faulty variant: an unexpected state is ignored instead of rejected
ClaimerReact_unknownIdle(inst, arch, ctx) ==
    CASE ctx.current_state = "WaitPartition" -> ClaimerWaitPartition(inst, arch, ctx)
      [] OTHER -> Outcome(Idle, <<>>, FALSE)

\* faulty variant: the "WaitMemoryProveValues" arm is missing
ClaimerReact_noMemoryArm(inst, arch, ctx) ==
    CASE ctx.current_state = "WaitPartition" -> ClaimerWaitPartition(inst, arch, ctx)
      [] OTHER ->
           Outcome(InvalidContractState("Unknown current state", ctx.current_state),
                   <<>>, FALSE)

\* Role::Claimer => match ctx.current_state
ClaimerReact(inst, arch, ctx) ==
    CASE ctx.current_state = "WaitPartition" -> ClaimerWaitPartition(inst, arch, ctx)
      [] ctx.current_state = "WaitMemoryProveValues" -> Outcome(Idle, <<>>, FALSE)
      [] OTHER ->
           Outcome(InvalidContractState("Unknown current state", ctx.current_state),
                   <<>>, FALSE)

\* faulty variant: a missing partition instance is not an error
ChallengerWaitPartition_missingIdle(inst, arch, ctx) ==
    IF ~HasSub0(inst)
    THEN Outcome(Idle, <<>>, TRUE)
    ELSE Delegate("Partition", Sub0(inst), arch, Unit)

\* faulty variant: the challenger short-circuits a finished partition the
\* way the claimer does
ChallengerWaitPartition_shortCircuit(inst, arch, ctx) ==
    IF ~HasSub0(inst)
    THEN Outcome(InvalidContractState("There is no partition instance",
                                      ctx.current_state), <<>>, TRUE)
    ELSE ClaimerWaitPartition(inst, arch, ctx)

\* Role::Challenger, "WaitPartition"
ChallengerWaitPartition(inst, arch, ctx) ==
    IF ~HasSub0(inst)
    THEN Outcome(InvalidContractState("There is no partition instance",
                                      ctx.current_state), <<>>, TRUE)
    ELSE Delegate("Partition", Sub0(inst), arch, Unit)

\* faulty variant: the "WaitingReplay" arm names the claimer's call
ChallengerMMMatch_wrongCall(inst, arch, ctx, mm_ctx) ==
    CASE mm_ctx.current_state = "WaitingProofs" ->
           Delegate("MM", Sub0(inst), arch, <<ctx.divergence_time>>)
      [] mm_ctx.current_state = "WaitingReplay" ->
           Outcome(Transaction(VGRequest(inst, "startMachineRunChallenge")), <<>>, TRUE)
      [] mm_ctx.current_state = "FinishedReplay" -> Outcome(Idle, <<>>, TRUE)
      [] OTHER -> Outcome(Idle, <<>>, TRUE)

\* faulty variant: an unexpected MM state is rejected like an unexpected VG
\* state
ChallengerMMMatch_strict(inst, arch, ctx, mm_ctx) ==
    CASE mm_ctx.current_state = "WaitingProofs" ->
           Delegate("MM", Sub0(inst), arch, <<ctx.divergence_time>>)
      [] mm_ctx.current_state = "WaitingReplay" ->
           Outcome(Transaction(VGRequest(inst, "settleVerificationGame")), <<>>, TRUE)
      [] OTHER ->
           Outcome(InvalidContractState("Unknown current state", mm_ctx.current_state),
                   <<>>, TRUE)

\* faulty variant: the "WaitingReplay" arm is missing
ChallengerMMMatch_noSettle(inst, arch, ctx, mm_ctx) ==
    CASE mm_ctx.current_state = "WaitingProofs" ->
           Delegate("MM", Sub0(inst), arch, <<ctx.divergence_time>>)
      [] mm_ctx.current_state = "FinishedReplay" -> Outcome(Idle, <<>>, TRUE)
      [] OTHER -> Outcome(Idle, <<>>, TRUE)

\* match mm_ctx.current_state (challenger, WaitMemoryProveValues)
ChallengerMMMatch(inst, arch, ctx, mm_ctx) ==
    CASE mm_ctx.current_state = "WaitingProofs" ->
           Delegate("MM", Sub0(inst), arch, <<ctx.divergence_time>>)
      [] mm_ctx.current_state = "WaitingReplay" ->
           Outcome(Transaction(VGRequest(inst, "settleVerificationGame")), <<>>, TRUE)
      [] mm_ctx.current_state = "FinishedReplay" -> Outcome(Idle, <<>>, TRUE)
      [] OTHER -> Outcome(Idle, <<>>, TRUE)

\* Role::Challenger, "WaitMemoryProveValues"
ChallengerWaitMemoryProveValues(inst, arch, ctx) ==
    IF ~HasSub0(inst)
    THEN Outcome(InvalidContractState("There is no memory manager instance",
                                      ctx.current_state), <<>>, TRUE)
    ELSE IF ~ParsesAs(MMCtxParsed, Sub0(inst).json_data)
    THEN Outcome(ChainErr("Could not parse mm instance json_data",
                          inst.json_data), <<>>, TRUE)
    ELSE ChallengerMMMatch(inst, arch, ctx, MMCtx(Sub0(inst).json_data))

\* Role::Challenger => match ctx.current_state
ChallengerReact(inst, arch, ctx) ==
    CASE ctx.current_state = "WaitPartition" -> ChallengerWaitPartition(inst, arch, ctx)
      [] ctx.current_state = "WaitMemoryProveValues" ->
           ChallengerWaitMemoryProveValues(inst, arch, ctx)
      [] OTHER ->
           Outcome(InvalidContractState("Unknown current state", ctx.current_state),
                   <<>>, FALSE)

\* the reactor after a successful decode
ReactCtx(inst, arch, ctx) ==
    IF IsFinished(ctx.current_state) THEN Outcome(Idle, <<>>, FALSE)
    ELSE CASE Role(inst.concern.user_address, ctx) = "Claimer" ->
                ClaimerReact(inst, arch, ctx)
           [] Role(inst.concern.user_address, ctx) = "Challenger" ->
                ChallengerReact(inst, arch, ctx)
           [] OTHER ->
                Outcome(InvalidContractState("User is neither claimer nor challenger", ""),
                        <<>>, FALSE)

\* faulty variant: the decision of an earlier tick is kept instead of being
\* re-derived from the snapshot
VG_react_cached(inst, arch) ==
    IF proposed # {}
    THEN Outcome(Transaction(VGRequest(inst, CHOOSE f \in proposed : TRUE)),
                 <<>>, FALSE)
    ELSE IF ~ParsesAsVGCtxParsed(inst.json_data)
    THEN Outcome(ChainErr("Could not parse vg instance json_data", inst.json_data),
                 <<>>, FALSE)
    ELSE ReactCtx(inst, arch, VGCtx(inst.json_data))

\* impl DApp<()> for VG: fn react(instance, archive, _)
VG_react(inst, arch) ==
    IF ~ParsesAsVGCtxParsed(inst.json_data)
    THEN Outcome(ChainErr("Could not parse vg instance json_data", inst.json_data),
                 <<>>, FALSE)
    ELSE ReactCtx(inst, arch, VGCtx(inst.json_data))

(***************************************************************************)
(* The state machine: the scheduler ticks the reactor on the snapshot it   *)
(* holds; between ticks the chain moves on and the snapshot is re-read.    *)
(***************************************************************************)
\* Dispatcher::new has returned: the reactor runs, nothing of the
\* construction is in progress
Constructed ==
    /\ pc = "running"
    /\ read = [field |-> "nothing"]
    /\ merged = Unit
    /\ config = Unit
    /\ main_concern = Unit

\* no tick has run on the current snapshot
NoReaction == Outcome([kind |-> "None"], <<>>, FALSE)

\* a Transaction that VG built itself, not one a delegated reactor returned
BuiltByVG(o) == o.out.kind = "Transaction" /\ o.calls = <<>>

\* the function names VG itself proposed in outcome o
FunctionsOf(o) == IF BuiltByVG(o) THEN {o.out.request.function} ELSE {}

\* the order in which the on-chain game moves through its phases
PhaseRank(state) ==
    CASE state = "WaitPartition" -> 0
      [] state = "WaitMemoryProveValues" -> 1
      [] OTHER -> 2

Init ==
    /\ instance \in {Instance(i, Concern(ContractAddress, u), j, subs) :
                        i \in Indices, u \in Addresses,
                        j \in VGEncodings, subs \in SubInstanceSeqs}
    /\ archive \in Archives
    /\ reaction = NoReaction
    /\ proposed = {}
    /\ Constructed

\* one tick: VG::react on the current snapshot
Tick ==
    /\ reaction' = VG_react(instance, archive)
    /\ proposed' = proposed \cup FunctionsOf(reaction)
    /\ UNCHANGED <<instance, archive, newVars>>

\* the on-chain VG instance moves to a later phase; the snapshot is re-read
PhaseAdvance ==
    /\ ParsesAsVGCtxParsed(instance.json_data)
    /\ instance.json_data[8].value \in VGKnownStates
    /\ \E s \in VGKnownStates :
          /\ PhaseRank(s) > PhaseRank(instance.json_data[8].value)
          /\ instance' = [instance EXCEPT !.json_data[8].value = s]
    /\ reaction' = NoReaction
    /\ proposed' = proposed \cup FunctionsOf(reaction)
    /\ UNCHANGED <<archive, newVars>>

\* the chain replaces or advances sub-instance 0; the snapshot is re-read
SubInstanceUpdate ==
    /\ \E f \in FirstSubs :
          /\ IF HasSub0(instance) THEN f # Sub0(instance) ELSE TRUE
          /\ instance' = [instance EXCEPT !.sub_instances =
                            IF HasSub0(instance) THEN <<f>> \o Tail(@) ELSE <<f>>]
    /\ reaction' = NoReaction
    /\ proposed' = proposed \cup FunctionsOf(reaction)
    /\ UNCHANGED <<archive, newVars>>

\* the archive's history grows between ticks
ArchiveUpdate ==
    /\ \E a \in Archives \ {archive} : archive' = a
    /\ reaction' = NoReaction
    /\ proposed' = proposed \cup FunctionsOf(reaction)
    /\ UNCHANGED <<instance, newVars>>

Next == Tick \/ PhaseAdvance \/ SubInstanceUpdate \/ ArchiveUpdate

Spec == Init /\ [][Next]_vars

(***************************************************************************)
(* What the properties read off the snapshot, field by field of the        *)
(* encoded state (challenger, claimer, ..., currentState, uint values).    *)
(***************************************************************************)
Ticked == reaction.out.kind # "None"

Decodes ==
    /\ Len(instance.json_data) = 9
    /\ instance.json_data[8].ty = "string32"

SnapChallenger == instance.json_data[1].value

SnapClaimer == instance.json_data[2].value

SnapState == instance.json_data[8].value

SnapDivergenceTime == instance.json_data[9].value[6]

User == instance.concern.user_address

FinishedStates == {"FinishedClaimerWon", "FinishedChallengerWon"}

\* sub-instance 0 exists and is a Partition (resp. MM) instance in state s
Sub0IsPartitionIn(s) ==
    /\ Len(instance.sub_instances) >= 1
    /\ instance.sub_instances[1].json_data = <<Field("partition_state", s)>>

Sub0IsMMIn(s) ==
    /\ Len(instance.sub_instances) >= 1
    /\ instance.sub_instances[1].json_data = <<Field("mm_state", s)>>

\* the tick returned a Transaction built by VG: function fn, arguments
\* exactly the instance index, no sub-protocol reactor invoked
VGProposes(fn) ==
    /\ reaction.out.kind = "Transaction"
    /\ reaction.out.request.function = fn
    /\ reaction.out.request.data = <<instance.index>>
    /\ reaction.calls = <<>>

\* the tick returned the InvalidContractState error with this message
FailsWith(msg, state) ==
    /\ reaction.out.kind = "Error"
    /\ reaction.out.error = "InvalidContractState"
    /\ reaction.out.msg = msg
    /\ reaction.out.state = state

(***************************************************************************)
(* C1.  Terminal absorption: whenever the decoded current_state of the     *)
(* snapshot is FinishedClaimerWon or FinishedChallengerWon, the tick       *)
(* returns Idle, whoever the user is and whatever sub_instances holds.     *)
(***************************************************************************)
C1_TerminalAbsorption ==
    (Ticked /\ Decodes /\ SnapState \in FinishedStates)
        => /\ reaction.out = Idle
           /\ reaction.calls = <<>>

\* a finished game seen by a stranger, with a malformed sub-instance 0
C1_Witness ==
    /\ Ticked /\ Decodes
    /\ SnapState = "FinishedChallengerWon"
    /\ User \notin {SnapClaimer, SnapChallenger}
    /\ Len(instance.sub_instances) >= 1
    /\ instance.sub_instances[1].json_data = <<>>
    /\ reaction.out = Idle

(***************************************************************************)
(* C2.  Role exclusivity.  As stated: whenever the user is neither the     *)
(* claimer nor the challenger, the tick returns the "User is neither       *)
(* claimer nor challenger" error.                                          *)
(***************************************************************************)
C2_Original ==
    (Ticked /\ Decodes /\ User \notin {SnapClaimer, SnapChallenger})
        => FailsWith("User is neither claimer nor challenger", "")

\* C2 as amended: the error is returned when the game is not finished; in
\* a Finished state the stranger gets Idle; a stranger never gets a
\* Transaction and no sub-protocol reactor is invoked for it.
C2_RoleExclusivity ==
    (Ticked /\ Decodes /\ User \notin {SnapClaimer, SnapChallenger})
        => /\ SnapState \notin FinishedStates
                => FailsWith("User is neither claimer nor challenger", "")
           /\ SnapState \in FinishedStates => reaction.out = Idle
           /\ reaction.out.kind # "Transaction"
           /\ reaction.calls = <<>>

\* a stranger ticking a game in its partition phase whose partition has
\* already found the divergence
C2_Witness ==
    /\ Ticked /\ Decodes
    /\ User \notin {SnapClaimer, SnapChallenger}
    /\ SnapClaimer # SnapChallenger
    /\ SnapState = "WaitPartition"
    /\ Sub0IsPartitionIn("DivergenceFound")
    /\ FailsWith("User is neither claimer nor challenger", "")

(***************************************************************************)
(* C3.  Missing sub-instance.  As stated: in WaitPartition or              *)
(* WaitMemoryProveValues with an empty sub_instances, for the claimer and  *)
(* for the challenger, the tick returns the "There is no ... instance"     *)
(* error.                                                                  *)
(***************************************************************************)
C3_Original ==
    (/\ Ticked /\ Decodes
     /\ SnapState \in {"WaitPartition", "WaitMemoryProveValues"}
     /\ instance.sub_instances = <<>>
     /\ User \in {SnapClaimer, SnapChallenger})
        => /\ reaction.out.kind = "Error"
           /\ reaction.out.error = "InvalidContractState"
           /\ reaction.out.msg \in {"There is no partition instance",
                                    "There is no memory manager instance"}

\* C3 as amended: the error is returned in WaitPartition for both roles and
\* in WaitMemoryProveValues for the challenger (who is not also the
\* claimer); the claimer in WaitMemoryProveValues gets Idle without
\* sub_instances being read; in none of these cases a Transaction.
C3_MissingSubInstance ==
    (/\ Ticked /\ Decodes
     /\ SnapState \in {"WaitPartition", "WaitMemoryProveValues"}
     /\ instance.sub_instances = <<>>
     /\ User \in {SnapClaimer, SnapChallenger})
        => /\ SnapState = "WaitPartition"
                => FailsWith("There is no partition instance", SnapState)
           /\ (SnapState = "WaitMemoryProveValues" /\ User # SnapClaimer)
                => FailsWith("There is no memory manager instance", SnapState)
           /\ (SnapState = "WaitMemoryProveValues" /\ User = SnapClaimer)
                => (reaction.out = Idle /\ ~reaction.consulted)
           /\ reaction.out.kind # "Transaction"
           /\ reaction.calls = <<>>

\* the challenger ticking a partition phase that has no sub-instance
C3_Witness ==
    /\ Ticked /\ Decodes
    /\ SnapState = "WaitPartition"
    /\ instance.sub_instances = <<>>
    /\ User = SnapChallenger /\ User # SnapClaimer
    /\ FailsWith("There is no partition instance", "WaitPartition")

(***************************************************************************)
(* C4.  Unknown state rejection: for a current_state that is none of the   *)
(* four known ones, the claimer and the challenger both get the "Unknown   *)
(* current state" error naming that state; sub_instances is not read and   *)
(* no reactor is invoked.                                                  *)
(***************************************************************************)
C4_UnknownStateRejection ==
    (/\ Ticked /\ Decodes
     /\ SnapState \notin VGKnownStates
     /\ User \in {SnapClaimer, SnapChallenger})
        => /\ FailsWith("Unknown current state", SnapState)
           /\ ~reaction.consulted
           /\ reaction.calls = <<>>

\* the claimer ticking an unknown state although a finished partition is
\* at hand
C4_Witness ==
    /\ Ticked /\ Decodes
    /\ SnapState = "Unrecognized"
    /\ User = SnapClaimer
    /\ Sub0IsPartitionIn("ClaimerWon")
    /\ FailsWith("Unknown current state", "Unrecognized")

(***************************************************************************)
(* C6.  No phase contradiction across ticks: whatever VG proposed at       *)
(* earlier ticks, a Transaction VG builds at a tick matches the phase of   *)
(* the snapshot of that tick: winByPartitionTimeout and                    *)
(* startMachineRunChallenge only in WaitPartition, settleVerificationGame  *)
(* only in WaitMemoryProveValues, and in a Finished state the tick         *)
(* returns Idle.                                                           *)
(***************************************************************************)
C6_NoPhaseContradiction ==
    Ticked =>
        /\ BuiltByVG(reaction) =>
              /\ Decodes
              /\ reaction.out.request.function \in
                    {"winByPartitionTimeout", "startMachineRunChallenge",
                     "settleVerificationGame"}
              /\ reaction.out.request.function \in
                    {"winByPartitionTimeout", "startMachineRunChallenge"}
                    => SnapState = "WaitPartition"
              /\ reaction.out.request.function = "settleVerificationGame"
                    => SnapState = "WaitMemoryProveValues"
        /\ (Decodes /\ SnapState \in FinishedStates) => reaction.out = Idle

\* the claimer proposed startMachineRunChallenge at an earlier tick, the
\* game has moved to the memory phase since, and this tick proposes nothing
C6_Witness ==
    /\ Ticked /\ Decodes
    /\ "startMachineRunChallenge" \in proposed
    /\ SnapState = "WaitMemoryProveValues"
    /\ Sub0IsPartitionIn("DivergenceFound")
    /\ reaction.out = Idle

(***************************************************************************)
(* C7.  Claimer, WaitPartition, Partition in DivergenceFound: the tick     *)
(* returns the Transaction startMachineRunChallenge(index) and the         *)
(* Partition reactor is not invoked.                                       *)
(***************************************************************************)
C7_ClaimerStartsChallenge ==
    (/\ Ticked /\ Decodes
     /\ User = SnapClaimer
     /\ SnapState = "WaitPartition"
     /\ Sub0IsPartitionIn("DivergenceFound"))
        => VGProposes("startMachineRunChallenge")

\* that case, with an archive under which the Partition reactor would move
C7_Witness ==
    /\ Ticked /\ Decodes
    /\ User = SnapClaimer /\ User # SnapChallenger
    /\ SnapState = "WaitPartition"
    /\ Sub0IsPartitionIn("DivergenceFound")
    /\ archive = "move"
    /\ VGProposes("startMachineRunChallenge")

(***************************************************************************)
(* C8.  Claimer, WaitPartition, Partition in ClaimerWon or ChallengerWon:  *)
(* the tick returns the Transaction winByPartitionTimeout(index) and the   *)
(* Partition reactor is not invoked.                                       *)
(***************************************************************************)
C8_ClaimerClaimsTimeout ==
    (/\ Ticked /\ Decodes
     /\ User = SnapClaimer
     /\ SnapState = "WaitPartition"
     /\ Sub0IsPartitionIn("ClaimerWon") \/ Sub0IsPartitionIn("ChallengerWon"))
        => VGProposes("winByPartitionTimeout")

\* the claimer claims the timeout of a partition the challenger won
C8_Witness ==
    /\ Ticked /\ Decodes
    /\ User = SnapClaimer /\ User # SnapChallenger
    /\ SnapState = "WaitPartition"
    /\ Sub0IsPartitionIn("ChallengerWon")
    /\ archive = "move"
    /\ VGProposes("winByPartitionTimeout")

(***************************************************************************)
(* C9.  Challenger (not also the claimer), WaitMemoryProveValues, MM in    *)
(* WaitingReplay: the tick returns the Transaction                         *)
(* settleVerificationGame(index) and the MM reactor is not invoked.        *)
(***************************************************************************)
C9_ChallengerSettles ==
    (/\ Ticked /\ Decodes
     /\ User = SnapChallenger /\ User # SnapClaimer
     /\ SnapState = "WaitMemoryProveValues"
     /\ Sub0IsMMIn("WaitingReplay"))
        => VGProposes("settleVerificationGame")

C9_Witness ==
    /\ Ticked /\ Decodes
    /\ User = SnapChallenger /\ User # SnapClaimer
    /\ SnapState = "WaitMemoryProveValues"
    /\ Sub0IsMMIn("WaitingReplay")
    /\ archive = "move"
    /\ VGProposes("settleVerificationGame")

(***************************************************************************)
(* C10.  MM delegation pass-through.  As stated: when the user is the      *)
(* challenger, the state is WaitMemoryProveValues and the MM instance is   *)
(* in WaitingProofs, the tick returns what the MM reactor returns on       *)
(* sub-instance 0 with the same archive and the sixth uint of the state    *)
(* (divergence_time) as its context.                                       *)
(***************************************************************************)
PassesThroughMM ==
    /\ reaction.out =
          MM_react(instance.sub_instances[1], archive, <<SnapDivergenceTime>>)
    /\ reaction.calls =
          <<Call("MM", instance.sub_instances[1], archive, <<SnapDivergenceTime>>)>>

C10_Original ==
    (/\ Ticked /\ Decodes
     /\ User = SnapChallenger
     /\ SnapState = "WaitMemoryProveValues"
     /\ Sub0IsMMIn("WaitingProofs"))
        => PassesThroughMM

\* C10 as amended: the same, when the user is the challenger and not also
\* the claimer.
C10_MMPassThrough ==
    (/\ Ticked /\ Decodes
     /\ User = SnapChallenger /\ User # SnapClaimer
     /\ SnapState = "WaitMemoryProveValues"
     /\ Sub0IsMMIn("WaitingProofs"))
        => PassesThroughMM

\* the MM reactor's own Transaction, carrying the divergence time, comes
\* back as the result of the tick
C10_Witness ==
    /\ Ticked /\ Decodes
    /\ User = SnapChallenger /\ User # SnapClaimer
    /\ SnapState = "WaitMemoryProveValues"
    /\ Sub0IsMMIn("WaitingProofs")
    /\ archive = "move"
    /\ reaction.out.kind = "Transaction"
    /\ reaction.out.request.function = "MM"
    /\ reaction.out.request.data = <<0, SnapDivergenceTime>>

(***************************************************************************)
(* C11.  The challenger never short-circuits the partition phase: when     *)
(* the user is the challenger and not the claimer, the state is            *)
(* WaitPartition and sub-instance 0 exists, the tick returns exactly what  *)
(* the Partition reactor returns on sub-instance 0, whatever that          *)
(* sub-instance's state; VG builds no Transaction of its own.              *)
(***************************************************************************)
PassesThroughPartition ==
    /\ reaction.out = Partition_react(instance.sub_instances[1], archive, <<>>)
    /\ reaction.calls = <<Call("Partition", instance.sub_instances[1], archive, <<>>)>>

C11_ChallengerDelegatesPartition ==
    (/\ Ticked /\ Decodes
     /\ User = SnapChallenger /\ User # SnapClaimer
     /\ SnapState = "WaitPartition"
     /\ Len(instance.sub_instances) >= 1)
        => /\ PassesThroughPartition
           /\ ~BuiltByVG(reaction)

\* the challenger sees the divergence found and a quiet Partition reactor:
\* the tick is Idle, not startMachineRunChallenge
C11_Witness ==
    /\ Ticked /\ Decodes
    /\ User = SnapChallenger /\ User # SnapClaimer
    /\ SnapState = "WaitPartition"
    /\ Sub0IsPartitionIn("DivergenceFound")
    /\ archive = "quiet"
    /\ reaction.out = Idle
    /\ Len(reaction.calls) = 1

(***************************************************************************)
(* C12.  The claimer delegates a running partition: when the user is the   *)
(* claimer, the state is WaitPartition and sub-instance 0 is a Partition   *)
(* instance whose state is none of ChallengerWon, ClaimerWon,              *)
(* DivergenceFound, the tick returns verbatim what the Partition reactor   *)
(* returns on sub-instance 0 with the same archive.                        *)
(***************************************************************************)
C12_ClaimerDelegatesRunningPartition ==
    (/\ Ticked /\ Decodes
     /\ User = SnapClaimer
     /\ SnapState = "WaitPartition"
     /\ \E s \in PartitionStates \ {"ChallengerWon", "ClaimerWon", "DivergenceFound"} :
           Sub0IsPartitionIn(s))
        => PassesThroughPartition

\* the Partition reactor's own Transaction comes back as the tick's result
C12_Witness ==
    /\ Ticked /\ Decodes
    /\ User = SnapClaimer /\ User # SnapChallenger
    /\ SnapState = "WaitPartition"
    /\ Sub0IsPartitionIn("WaitingQuery")
    /\ archive = "move"
    /\ reaction.out.kind = "Transaction"
    /\ reaction.out.request.function = "Partition"

(***************************************************************************)
(* C13.  The claimer is idle during the memory-proof phase: when the user  *)
(* is the claimer and the state is WaitMemoryProveValues, the tick returns *)
(* Idle and invokes no reactor, whatever sub_instances holds.              *)
(***************************************************************************)
C13_ClaimerIdleInMemoryPhase ==
    (/\ Ticked /\ Decodes
     /\ User = SnapClaimer
     /\ SnapState = "WaitMemoryProveValues")
        => /\ reaction.out = Idle
           /\ reaction.calls = <<>>

\* the claimer sees an MM instance waiting for replay, under an archive that
\* would make the MM reactor move
C13_Witness ==
    /\ Ticked /\ Decodes
    /\ User = SnapClaimer /\ User # SnapChallenger
    /\ SnapState = "WaitMemoryProveValues"
    /\ Sub0IsMMIn("WaitingReplay")
    /\ archive = "move"
    /\ reaction.out = Idle

(***************************************************************************)
(* C14.  An unexpected MM state is recoverable: when the user is the       *)
(* challenger, the state is WaitMemoryProveValues and the MM instance is   *)
(* in FinishedReplay or in any state other than WaitingProofs and          *)
(* WaitingReplay, the tick returns Idle and the MM reactor is not invoked. *)
(***************************************************************************)
C14_UnexpectedMMStateIdle ==
    (/\ Ticked /\ Decodes
     /\ User = SnapChallenger
     /\ SnapState = "WaitMemoryProveValues"
     /\ \E s \in MMStates \ {"WaitingProofs", "WaitingReplay"} : Sub0IsMMIn(s))
        => /\ reaction.out = Idle
           /\ reaction.calls = <<>>

\* the challenger alone sees an MM state the reactor does not know
C14_Witness ==
    /\ Ticked /\ Decodes
    /\ User = SnapChallenger /\ User # SnapClaimer
    /\ SnapState = "WaitMemoryProveValues"
    /\ Sub0IsMMIn("Unrecognized")
    /\ archive = "broken"
    /\ reaction.out = Idle

(***************************************************************************)
(* C15.  Shape of every call VG emits: a Transaction VG builds itself has  *)
(* the instance's concern, value zero, strategy Simplest, the single       *)
(* argument instance.index, and one of the three VG function names.        *)
(***************************************************************************)
C15_ShapeOfVGCalls ==
    (Ticked /\ BuiltByVG(reaction))
        => /\ reaction.out.request.concern = instance.concern
           /\ reaction.out.request.value = 0
           /\ reaction.out.request.strategy = "Simplest"
           /\ reaction.out.request.data = <<instance.index>>
           /\ reaction.out.request.function \in
                 {"winByPartitionTimeout", "startMachineRunChallenge",
                  "settleVerificationGame"}

\* settleVerificationGame for the instance of the highest index
C15_Witness ==
    /\ Ticked /\ BuiltByVG(reaction)
    /\ instance.index = MaxIndex
    /\ reaction.out.request.function = "settleVerificationGame"
    /\ reaction.out.request.data = <<MaxIndex>>
    /\ reaction.out.request.concern = instance.concern

(***************************************************************************)
(* C16.  Sub-protocol errors propagate unchanged: whenever the tick        *)
(* delegates to the Partition or the MM reactor and that reactor returns   *)
(* an error, the tick returns that same error.                             *)
(***************************************************************************)
\* what the reactor named in a call record returns on that call's arguments
Returned(c) ==
    IF c.reactor = "MM" THEN MM_react(c.instance, c.archive, c.ctx)
                        ELSE Partition_react(c.instance, c.archive, c.ctx)

C16_SubProtocolErrorsPropagate ==
    (Ticked /\ reaction.calls # <<>>)
        => /\ Len(reaction.calls) = 1
           /\ reaction.calls[1].instance = instance.sub_instances[1]
           /\ reaction.calls[1].archive = archive
           /\ Returned(reaction.calls[1]).kind = "Error"
                => reaction.out = Returned(reaction.calls[1])

\* the MM reactor fails under the challenger's delegation and its error is
\* the tick's result
C16_Witness ==
    /\ Ticked /\ Decodes
    /\ User = SnapChallenger /\ User # SnapClaimer
    /\ SnapState = "WaitMemoryProveValues"
    /\ Sub0IsMMIn("WaitingProofs")
    /\ archive = "broken"
    /\ reaction.out.kind = "Error"
    /\ reaction.out.error = "MM"
    /\ reaction.out.msg = "sub-protocol failure"

(***************************************************************************)
(* C17.  Decode errors carry the offending payload: a decode failure of    *)
(* the VG state, of the Partition sub-instance's state (claimer,           *)
(* WaitPartition) or of the MM sub-instance's state (challenger,           *)
(* WaitMemoryProveValues) ends the tick with an error that names the       *)
(* protocol and carries the encoded state that failed to decode.           *)
(***************************************************************************)
DecodeErrorWith(msg, payload) ==
    /\ reaction.out.kind = "Error"
    /\ reaction.out.msg = msg
    /\ reaction.out.payload = payload
    /\ reaction.calls = <<>>

Sub0IsNotA(ty) ==
    /\ Len(instance.sub_instances) >= 1
    /\ \/ Len(instance.sub_instances[1].json_data) # 1
       \/ instance.sub_instances[1].json_data[1].ty # ty

C17_DecodeErrorsCarryPayload ==
    Ticked =>
        /\ ~Decodes
              => DecodeErrorWith("Could not parse vg instance json_data",
                                 instance.json_data)
        /\ (/\ Decodes /\ User = SnapClaimer /\ SnapState = "WaitPartition"
            /\ Sub0IsNotA("partition_state"))
              => DecodeErrorWith("Could not parse partition instance json_data",
                                 instance.sub_instances[1].json_data)
        /\ (/\ Decodes /\ User = SnapChallenger /\ User # SnapClaimer
            /\ SnapState = "WaitMemoryProveValues"
            /\ Sub0IsNotA("mm_state"))
              => DecodeErrorWith("Could not parse mm instance json_data",
                                 instance.sub_instances[1].json_data)

(***************************************************************************)
(* C18.  Claimer-priority tie-break: when the user is both the claimer and *)
(* the challenger and the state is not terminal, the tick does what it     *)
(* does for the claimer: the claimer's table in WaitPartition, Idle with   *)
(* no MM delegation in WaitMemoryProveValues, the unknown-state error      *)
(* otherwise; the double match is not reported as an error.                *)
(***************************************************************************)
C18_ClaimerPriorityTieBreak ==
    (/\ Ticked /\ Decodes
     /\ User = SnapClaimer /\ User = SnapChallenger
     /\ SnapState \notin FinishedStates)
        => /\ (SnapState = "WaitPartition" /\ instance.sub_instances = <<>>)
                => FailsWith("There is no partition instance", SnapState)
           /\ (SnapState = "WaitPartition" /\ Sub0IsNotA("partition_state"))
                => /\ reaction.out.kind = "Error"
                   /\ reaction.out.msg = "Could not parse partition instance json_data"
           /\ (/\ SnapState = "WaitPartition"
               /\ Sub0IsPartitionIn("ClaimerWon") \/ Sub0IsPartitionIn("ChallengerWon"))
                => VGProposes("winByPartitionTimeout")
           /\ (SnapState = "WaitPartition" /\ Sub0IsPartitionIn("DivergenceFound"))
                => VGProposes("startMachineRunChallenge")
           /\ (SnapState = "WaitPartition" /\ Sub0IsPartitionIn("WaitingQuery"))
                => PassesThroughPartition
           /\ SnapState = "WaitMemoryProveValues"
                => (reaction.out = Idle /\ reaction.calls = <<>>)
           /\ SnapState \notin VGKnownStates
                => FailsWith("Unknown current state", SnapState)
           /\ ~(reaction.out.kind = "Error"
                  /\ reaction.out.msg = "User is neither claimer nor challenger")

\* the user is both parties and an MM instance waits for replay: the tick is
\* Idle, not settleVerificationGame
C18_Witness ==
    /\ Ticked /\ Decodes
    /\ User = SnapClaimer /\ User = SnapChallenger
    /\ SnapState = "WaitMemoryProveValues"
    /\ Sub0IsMMIn("WaitingReplay")
    /\ reaction.out = Idle

(***************************************************************************)
(* C19.  Each side proposes only its own moves: VG builds                  *)
(* winByPartitionTimeout or startMachineRunChallenge only when the user is *)
(* the claimer, settleVerificationGame only when the user is the           *)
(* challenger and not the claimer, and no other function.                  *)
(***************************************************************************)
C19_OwnMovesOnly ==
    (Ticked /\ BuiltByVG(reaction))
        => /\ Decodes
           /\ reaction.out.request.function \in
                 {"winByPartitionTimeout", "startMachineRunChallenge"}
                 => User = SnapClaimer
           /\ reaction.out.request.function = "settleVerificationGame"
                 => (User = SnapChallenger /\ User # SnapClaimer)
           /\ reaction.out.request.function \in
                 {"winByPartitionTimeout", "startMachineRunChallenge",
                  "settleVerificationGame"}

\* the user is both parties: the claimer's move is built, the challenger's
\* never is
C19_Witness ==
    /\ Ticked /\ BuiltByVG(reaction)
    /\ reaction.out.request.function = "startMachineRunChallenge"
    /\ User = SnapClaimer /\ User = SnapChallenger

(***************************************************************************)
(* C20.  Non-interference of irrelevant data: two snapshots that agree on  *)
(* the index, the concern, the challenger, the claimer, the current_state, *)
(* the divergence_time and sub-instance 0 get the same outcome, although   *)
(* they differ in the machine, the four hashes, the five other uint        *)
(* values or the sub-instances at positions 1 and above.                   *)
(***************************************************************************)
\* the snapshots that agree with inst on the data named above
AgreeingSnapshots(inst) ==
    {[inst EXCEPT
        !.json_data[3].value = m,
        !.json_data[4].value = h, !.json_data[5].value = h,
        !.json_data[6].value = h, !.json_data[7].value = h,
        !.json_data[9].value = [i \in 1..6 |-> IF i = 6 THEN @[6] ELSE @[i] + d],
        !.sub_instances = IF Len(@) = 0 THEN @ ELSE <<@[1]>> \o t] :
      m \in {"machine", "otherMachine"}, h \in {"h_initial", "h_other"},
      d \in {0, 100}, t \in TailSeqs(MaxSubs - 1)}

C20_NonInterference ==
    (Ticked /\ Decodes)
        => \A other \in AgreeingSnapshots(instance) :
              VG_react(other, archive).out = reaction.out

(***************************************************************************)
(* C21.  No joint stall in an active phase.  As stated: for a snapshot in  *)
(* WaitPartition or WaitMemoryProveValues with distinct claimer and        *)
(* challenger and a decodable sub-instance 0 (a Partition instance in      *)
(* WaitPartition, an MM instance in WaitMemoryProveValues, in any state),  *)
(* at least one of the two parties gets more than an Idle of VG's own: a   *)
(* Transaction built by VG or a delegation.                                *)
(***************************************************************************)
\* the snapshot as the other party of the game sees it
CounterpartView ==
    [instance EXCEPT !.concern.user_address =
        IF @ = SnapClaimer THEN SnapChallenger ELSE SnapClaimer]

\* the outcome moves the game: VG built a Transaction or delegated
Moves(o) == BuiltByVG(o) \/ o.calls # <<>>

OnePartyMoves ==
    Moves(reaction) \/ Moves(VG_react(CounterpartView, archive))

C21_Original ==
    (/\ Ticked /\ Decodes
     /\ SnapClaimer # SnapChallenger
     /\ User \in {SnapClaimer, SnapChallenger}
     /\ \/ SnapState = "WaitPartition"
             /\ \E s \in PartitionStates : Sub0IsPartitionIn(s)
        \/ SnapState = "WaitMemoryProveValues"
             /\ \E s \in MMStates : Sub0IsMMIn(s))
        => OnePartyMoves

\* C21 as amended: the same, with the MM instance in WaitingProofs or
\* WaitingReplay; with the MM instance in FinishedReplay or in a state the
\* reactor does not know, both parties get Idle.
C21_NoJointStall ==
    (/\ Ticked /\ Decodes
     /\ SnapClaimer # SnapChallenger
     /\ User \in {SnapClaimer, SnapChallenger})
        => /\ (SnapState = "WaitPartition"
                  /\ \E s \in PartitionStates : Sub0IsPartitionIn(s))
                => OnePartyMoves
           /\ (SnapState = "WaitMemoryProveValues"
                  /\ \E s \in {"WaitingProofs", "WaitingReplay"} : Sub0IsMMIn(s))
                => OnePartyMoves
           /\ (SnapState = "WaitMemoryProveValues"
                  /\ \E s \in MMStates \ {"WaitingProofs", "WaitingReplay"} :
                        Sub0IsMMIn(s))
                => /\ reaction.out = Idle
                   /\ VG_react(CounterpartView, archive).out = Idle

\* the claimer is idle in the memory phase while the challenger, on the
\* same snapshot, settles
C21_Witness ==
    /\ Ticked /\ Decodes
    /\ SnapClaimer # SnapChallenger
    /\ User = SnapClaimer
    /\ SnapState = "WaitMemoryProveValues"
    /\ Sub0IsMMIn("WaitingReplay")
    /\ reaction.out = Idle
    /\ BuiltByVG(VG_react(CounterpartView, archive))

(***************************************************************************)
(* Configuration (configuration/src/lib.rs): the values the three sources  *)
(* are drawn from.                                                         *)
(***************************************************************************)
\* bits of the model's u64 and i64 (64 in the source)
Width == 24
\* longest list of concerns of the configuration file
MaxFileConcerns == 2

DEFAULT_MAX_DELAY == 500

DEFAULT_WARN_DELAY == 100

U64Max == 2^Width - 1

I64Max == 2^(Width - 1) - 1

\* Option<T>
None == <<>>

Some(v) == <<v>>

\* Result<T>; errors carry their ErrorKind
Ok(v) == [kind |-> "Ok", value |-> v]

InvalidConfig(text) == [kind |-> "Err", error |-> "InvalidConfig", msg |-> text]

\* chain_err(|| msg) over a foreign error: ErrorKind::Msg
Chained(text) == [kind |-> "Err", error |-> "Msg", msg |-> text]

\* a text each source may give for url and for working_path
UrlOf == [cli |-> "http://cli", env |-> "http://env", file |-> "http://file"]

WorkingPathOf == [cli |-> "/cli", env |-> "/env", file |-> "/file"]

AbiOf == [cli |-> "cli.json", env |-> "env.json"]

OptionOf(values) == {None} \cup {Some(v) : v \in values}

\* seconds a source may give: small, above both defaults, i64::MIN and -1
\* once cast to i64
DelayValues == {5, 600, I64Max + 1, U64Max}

\* address texts: with the 0x prefix, without it, and not hexadecimal
HexDigits == {"a", "b"}

ContractTexts == {<<"0", "x", "a">>, <<"z">>}

UserTexts == {<<"0", "x", "a">>, <<"b">>, <<"z">>}

FullConcern(contract, user, abi) ==
    [contract_address |-> contract, user_address |-> user, abi |-> abi]

\* entries of the file, as written: contract address, user address, abi.
\* main_concern of the file
FileMainConcerns == {<<<<"b">>, <<"a">>, "main.json">>}

\* entries of the file's concerns list; the first names the same pair as
\* a concern the command line or the environment can give
ListedConcerns ==
    {<<<<"a">>, <<"a">>, "listed.json">>, <<<<"b">>, <<"b">>, "listed.json">>}

FileConcernLists == UNION {[1..n -> ListedConcerns] : n \in 0..MaxFileConcerns}

(***************************************************************************)
(* combine_config and validate_concern.                                    *)
(***************************************************************************)
\* Option::or
Or(a, b) == IF a # None THEN a ELSE b

\* Option::ok_or
OkOr(o, err) == IF o # None THEN Ok(o[1]) ELSE err

\* Option::unwrap_or
UnwrapOr(o, default) == IF o # None THEN o[1] ELSE default

\* str::trim_start_matches("0x"): strips every leading repetition
RECURSIVE TrimStartMatches0x(_)
TrimStartMatches0x(text) ==
    IF Len(text) >= 2 /\ text[1] = "0" /\ text[2] = "x"
    THEN TrimStartMatches0x(SubSeq(text, 3, Len(text)))
    ELSE text

\* str::parse::<Address>: hexadecimal digits only (their number, 40 in the
\* source, is not modelled beyond "some")
ParsesAsAddress(text) ==
    /\ text # <<>>
    /\ \A i \in 1..Len(text) : text[i] \in HexDigits

\* str::parse::<PathBuf> cannot fail
PathBuf(text) == [path |-> text]

\* a FullConcern entry of the file, deserialized
Deserialized(entry) == FullConcern(entry[1], entry[2], PathBuf(entry[3]))

\* faulty variant of validate_concern: a lone contract counts as no concern
validate_concern_contractOnly(contract, user, abi) ==
    IF user # None \/ abi # None
    THEN IF contract = None
         THEN InvalidConfig("Concern's contract should be specified")
         ELSE IF ~ParsesAsAddress(TrimStartMatches0x(contract[1]))
         THEN Chained("failed to parse contract address")
         ELSE IF user = None
         THEN InvalidConfig("Concern's user should be specified")
         ELSE IF ~ParsesAsAddress(TrimStartMatches0x(user[1]))
         THEN Chained("failed to parse user address")
         ELSE IF abi = None
         THEN InvalidConfig("Concern's abi should be specified")
         ELSE Ok(Some(FullConcern(TrimStartMatches0x(contract[1]),
                                  TrimStartMatches0x(user[1]),
                                  PathBuf(abi[1]))))
    ELSE Ok(None)

\* fn validate_concern(contract, user, abi): the fields of the FullConcern
\* are evaluated in order, each `?` returning the first error
validate_concern(contract, user, abi) ==
    IF contract # None \/ user # None \/ abi # None
    THEN IF contract = None
         THEN InvalidConfig("Concern's contract should be specified")
         ELSE IF ~ParsesAsAddress(TrimStartMatches0x(contract[1]))
         THEN Chained("failed to parse contract address")
         ELSE IF user = None
         THEN InvalidConfig("Concern's user should be specified")
         ELSE IF ~ParsesAsAddress(TrimStartMatches0x(user[1]))
         THEN Chained("failed to parse user address")
         ELSE IF abi = None
         THEN InvalidConfig("Concern's abi should be specified")
         ELSE Ok(Some(FullConcern(TrimStartMatches0x(contract[1]),
                                  TrimStartMatches0x(user[1]),
                                  PathBuf(abi[1]))))
    ELSE Ok(None)

\* faulty variant of the url resolution: the environment before the
\* command line
determine_url_envFirst(cli, env, file) ==
    OkOr(Or(Or(env, cli), file),
         InvalidConfig("Need to provide url (config file, command line or env)"))

\* determine url (cli -> env -> config)
determine_url(cli, env, file) ==
    OkOr(Or(Or(cli, env), file),
         InvalidConfig("Need to provide url (config file, command line or env)"))

\* determine testing (cli -> env -> config)
determine_testing(cli, env, file) == Ok(UnwrapOr(Or(Or(cli, env), file), FALSE))

\* determine max_delay (cli -> env -> config)
determine_max_delay(cli, env, file) ==
    Ok(UnwrapOr(Or(Or(cli, env), file), DEFAULT_MAX_DELAY))

\* determine warn_delay (cli -> env -> config)
determine_warn_delay(cli, env, file) ==
    Ok(UnwrapOr(Or(Or(cli, env), file), DEFAULT_WARN_DELAY))

\* determine working path (cli -> env -> config)
determine_working_path(cli, env, file) ==
    OkOr(Or(Or(cli, env), file),
         InvalidConfig("Need to provide working path (config file, command line or env)"))

\* determine main concern (cli -> env -> config)
determine_main_concern(cli, env, file) ==
    OkOr(Or(Or(cli, env), file),
         InvalidConfig("Need to provide main concern (config file, command line or env)"))

\* impl From<FullConcern> for Concern
ConcernFrom(full) == Concern(full.contract_address, full.user_address)

\* HashMap::insert: the entry of an equal key is replaced
Insert(map, key, value) == {e \in map : e[1] # key} \cup {<<key, value>>}

\* the loop over full_concerns: abis after the first n entries
RECURSIVE AbisOf(_, _)
AbisOf(full_concerns, n) ==
    IF n = 0 THEN {}
    ELSE Insert(AbisOf(full_concerns, n - 1), ConcernFrom(full_concerns[n]),
                [abi |-> full_concerns[n].abi])

\* u64 as i64: the same bits read in two's complement
AsI64(u) == IF u > I64Max THEN u - (U64Max + 1) ELSE u

\* time::Duration::seconds panics beyond i64::MAX milliseconds either way
DurationInBounds(secs) == secs <= I64Max \div 1000 /\ secs >= -(I64Max \div 1000)

Duration(secs) == [secs |-> secs]

\* the Configuration that combine_config returns, from its locals m: every
\* concern of the file is pushed, then the main concern
Configuration(m) ==
    [url |-> m.url,
     testing |-> m.testing,
     max_delay |-> Duration(AsI64(m.max_delay)),
     warn_delay |-> Duration(AsI64(m.warn_delay)),
     main_concern |-> ConcernFrom(m.main_concern),
     concerns |-> [i \in 1..Len(m.full_concerns) |-> ConcernFrom(m.full_concerns[i])]
                    \o <<ConcernFrom(m.main_concern)>>,
     working_path |-> m.working_path,
     abis |-> Insert(AbisOf(m.full_concerns, Len(m.full_concerns)),
                     ConcernFrom(m.main_concern), [abi |-> m.main_concern.abi])]

\* Configuration::new: "check if max_delay and warn delay are compatible",
\* on the Durations
delays_compatible(c) == ~(c.max_delay.secs < c.warn_delay.secs)

\* Dispatcher::new: let main_concern = ans.config.concerns[0]
FirstConcern(c) == c.concerns[1]

\* the instantiate request Dispatcher::new sends
InstantiateRequest(concern) ==
    TransactionRequest(concern, 0, "instantiate",
                       <<concern.user_address, concern.contract_address,
                         "X32", "U32", 122, 10, 100>>,
                       "Simplest")

(***************************************************************************)
(* Dispatcher::new as a state machine: Configuration::new reads the three  *)
(* sources and merges them field by field, in the order of combine_config, *)
(* every `?` leaving with the first error; then the delays are checked and *)
(* the dispatcher picks the concern it instantiates under.  `read` holds   *)
(* what the last step read, `merged` the locals of combine_config.         *)
(***************************************************************************)
NoLocals ==
    [url |-> None, testing |-> None, max_delay |-> None, warn_delay |-> None,
     working_path |-> None, cli_main_concern |-> None,
     env_main_concern |-> None, full_concerns |-> <<>>, main_concern |-> None]

InitNew ==
    /\ instance = Unit
    /\ archive = "quiet"
    /\ reaction = NoReaction
    /\ proposed = {}
    /\ pc = "new"
    /\ read = [field |-> "nothing"]
    /\ merged = NoLocals
    /\ config = Unit
    /\ main_concern = None

\* one statement of combine_config: store the value in the local, or leave
\* with the error
Determine(next, local, r, result) ==
    /\ read' = r
    /\ IF result.kind = "Ok"
       THEN /\ merged' = [merged EXCEPT ![local] = result.value]
            /\ pc' = next
            /\ config' = config
       ELSE /\ config' = result
            /\ pc' = "failed"
            /\ merged' = merged
    /\ UNCHANGED <<main_concern, vgVars>>

FromSources(name, cli, env, file) ==
    [field |-> name, cli |-> cli, env |-> env, file |-> file]

FromArguments(name, contract, user, abi) ==
    [field |-> name, contract |-> contract, user |-> user, abi |-> abi]

\* the environment does not deserialize, or the file cannot be opened, read
\* or parsed
LoadFails ==
    \E text \in {"envy", "unable to read configuration file",
                 "could not read from configuration file",
                 "could not parse configuration file"} :
        /\ pc = "new"
        /\ config' = Chained(text)
        /\ pc' = "failed"
        /\ read' = [field |-> "sources"]
        /\ UNCHANGED <<merged, main_concern, vgVars>>

DetermineUrl ==
    \E cli \in OptionOf({UrlOf.cli}), env \in OptionOf({UrlOf.env}),
       file \in OptionOf({UrlOf.file}) :
        /\ pc = "new"
        /\ Determine("testing", "url", FromSources("url", cli, env, file),
                     determine_url(cli, env, file))

DetermineTesting ==
    \E cli \in OptionOf(BOOLEAN), env \in OptionOf(BOOLEAN),
       file \in OptionOf(BOOLEAN) :
        /\ pc = "testing"
        /\ Determine("max_delay", "testing",
                     FromSources("testing", cli, env, file),
                     determine_testing(cli, env, file))

DetermineMaxDelay ==
    \E cli \in OptionOf(DelayValues), env \in OptionOf(DelayValues),
       file \in OptionOf(DelayValues) :
        /\ pc = "max_delay"
        /\ Determine("warn_delay", "max_delay",
                     FromSources("max_delay", cli, env, file),
                     determine_max_delay(cli, env, file))

DetermineWarnDelay ==
    \E cli \in OptionOf(DelayValues), env \in OptionOf(DelayValues),
       file \in OptionOf(DelayValues) :
        /\ pc = "warn_delay"
        /\ Determine("working_path", "warn_delay",
                     FromSources("warn_delay", cli, env, file),
                     determine_warn_delay(cli, env, file))

DetermineWorkingPath ==
    \E cli \in OptionOf({WorkingPathOf.cli}), env \in OptionOf({WorkingPathOf.env}),
       file \in OptionOf({WorkingPathOf.file}) :
        /\ pc = "working_path"
        /\ Determine("cli_main_concern", "working_path",
                     FromSources("working_path", cli, env, file),
                     determine_working_path(cli, env, file))

ValidateCliConcern ==
    \E contract \in OptionOf(ContractTexts), user \in OptionOf(UserTexts),
       abi \in OptionOf({AbiOf.cli}) :
        /\ pc = "cli_main_concern"
        /\ Determine("env_main_concern", "cli_main_concern",
                     FromArguments("cli_main_concern", contract, user, abi),
                     validate_concern(contract, user, abi))

ValidateEnvConcern ==
    \E contract \in OptionOf(ContractTexts), user \in OptionOf(UserTexts),
       abi \in OptionOf({AbiOf.env}) :
        /\ pc = "env_main_concern"
        /\ Determine("main_concern", "env_main_concern",
                     FromArguments("env_main_concern", contract, user, abi),
                     validate_concern(contract, user, abi))

\* Option<FullConcern> of the file
FileMainConcern(entry) == IF entry = None THEN None ELSE Some(Deserialized(entry[1]))

\* full_concerns and main_concern, from the file and the two validated
\* concerns
DetermineMainConcern ==
    \E entry \in OptionOf(FileMainConcerns), listed \in FileConcernLists :
        /\ pc = "main_concern"
        /\ read' = FromSources("main_concern", merged.cli_main_concern,
                               merged.env_main_concern, FileMainConcern(entry))
        /\ LET result == determine_main_concern(merged.cli_main_concern,
                                                merged.env_main_concern,
                                                FileMainConcern(entry))
               full_concerns == [i \in 1..Len(listed) |-> Deserialized(listed[i])]
           IN  IF result.kind = "Ok"
               THEN /\ merged' = [merged EXCEPT !.full_concerns = full_concerns,
                                                !.main_concern = result.value]
                    /\ pc' = "build"
                    /\ config' = config
               ELSE /\ merged' = [merged EXCEPT !.full_concerns = full_concerns]
                    /\ config' = result
                    /\ pc' = "failed"
        /\ UNCHANGED <<main_concern, vgVars>>

\* the two loops and Ok(Configuration { .. }); Duration::seconds may panic
BuildConfiguration ==
    /\ pc = "build"
    /\ read' = [field |-> "configuration"]
    /\ IF /\ DurationInBounds(AsI64(merged.max_delay))
          /\ DurationInBounds(AsI64(merged.warn_delay))
       THEN /\ config' = Ok(Configuration(merged))
            /\ pc' = "check"
       ELSE /\ config' = [kind |-> "Panic", msg |-> "Duration::seconds out of bounds"]
            /\ pc' = "panicked"
    /\ UNCHANGED <<merged, main_concern, vgVars>>

\* Configuration::new after combine_config
CheckDelays ==
    /\ pc = "check"
    /\ read' = [field |-> "delays"]
    /\ IF delays_compatible(config.value)
       THEN /\ config' = config
            /\ pc' = "loaded"
       ELSE /\ config' = InvalidConfig("max_delay should be larger than warn delay")
            /\ pc' = "failed"
    /\ UNCHANGED <<merged, main_concern, vgVars>>

\* Dispatcher::new: the node cannot be reached, fails its test, or the
\* transaction manager or the abi cannot be set up
CollaboratorFails ==
    /\ pc = "loaded"
    /\ pc' = "unconnected"
    /\ UNCHANGED <<read, merged, config, main_concern, vgVars>>

\* Dispatcher::new: the instantiate request under concerns[0]
Instantiate ==
    /\ pc = "loaded"
    /\ main_concern' = Some(FirstConcern(config.value))
    /\ pc' = "running"
    /\ UNCHANGED <<read, merged, config, vgVars>>

NextNew ==
    \/ LoadFails \/ DetermineUrl \/ DetermineTesting \/ DetermineMaxDelay
    \/ DetermineWarnDelay \/ DetermineWorkingPath \/ ValidateCliConcern
    \/ ValidateEnvConcern \/ DetermineMainConcern \/ BuildConfiguration
    \/ CheckDelays \/ CollaboratorFails \/ Instantiate

SpecNew == InitNew /\ [][NextNew]_vars

\* every state of the construction is well formed
NewTypeOK ==
    /\ pc \in {"new", "testing", "max_delay", "warn_delay", "working_path",
               "cli_main_concern", "env_main_concern", "main_concern",
               "build", "check", "loaded", "failed", "panicked",
               "unconnected", "running"}
    /\ pc \in {"check", "loaded", "unconnected", "running"} => config.kind = "Ok"
    /\ pc = "failed" => config.kind = "Err"

(***************************************************************************)
(* Properties of the construction (SpecNew).                               *)
(***************************************************************************)
\* the value the sources of the last step give, command line first, then
\* environment, then file
FirstGiven ==
    IF read.cli # None THEN read.cli
    ELSE IF read.env # None THEN read.env
    ELSE read.file

\* the last step was the resolution of this local of combine_config
JustDetermined(name) == read.field = name

\* combine_config left with an InvalidConfig error at the last step
LeftWithInvalidConfig ==
    pc = "failed" /\ config.kind = "Err" /\ config.error = "InvalidConfig"

\* Configuration::new or combine_config has produced a Configuration
HasConfiguration == pc \in {"check", "loaded", "unconnected", "running"}

\* C22: configuration precedence.  Each of url, testing, max_delay,
\* warn_delay, working_path and the main concern is resolved to the
\* command-line value if present, else the environment value if present,
\* else the file value; with all three absent testing, max_delay and
\* warn_delay become false, 500 and 100, and url, working_path and the main
\* concern end combine_config with an InvalidConfig error.  The values so
\* resolved are the ones the Configuration is built from.
C22_ConfigurationPrecedence ==
    /\ \A name \in {"url", "working_path", "main_concern"} :
          JustDetermined(name) =>
             IF FirstGiven = None
             THEN LeftWithInvalidConfig
             ELSE pc # "failed" /\ merged[name] = FirstGiven[1]
    /\ JustDetermined("testing") =>
          /\ pc # "failed"
          /\ merged.testing = IF FirstGiven = None THEN FALSE ELSE FirstGiven[1]
    /\ JustDetermined("max_delay") =>
          /\ pc # "failed"
          /\ merged.max_delay = IF FirstGiven = None THEN 500 ELSE FirstGiven[1]
    /\ JustDetermined("warn_delay") =>
          /\ pc # "failed"
          /\ merged.warn_delay = IF FirstGiven = None THEN 100 ELSE FirstGiven[1]
    /\ HasConfiguration =>
          /\ config.value.url = merged.url
          /\ config.value.testing = merged.testing
          /\ config.value.working_path = merged.working_path
          /\ config.value.main_concern =
                Concern(merged.main_concern.contract_address,
                        merged.main_concern.user_address)
          /\ merged.max_delay <= I64Max => config.value.max_delay.secs = merged.max_delay
          /\ merged.warn_delay <= I64Max => config.value.warn_delay.secs = merged.warn_delay

\* the url came from the environment over the file, max_delay fell back to
\* its default, and warn_delay has just fallen back to its default
C22_Witness ==
    /\ JustDetermined("warn_delay")
    /\ read.cli = None /\ read.env = None /\ read.file = None
    /\ merged.warn_delay = DEFAULT_WARN_DELAY
    /\ merged.max_delay = DEFAULT_MAX_DELAY
    /\ merged.url = UrlOf.env
    /\ merged.testing = FALSE

\* validate_concern has just run on the command line's or the environment's
\* contract, user and abi
JustValidated == read.field \in {"cli_main_concern", "env_main_concern"}

\* how many of contract, user and abi were given
Given == Cardinality({a \in {"contract", "user", "abi"} : read[a] # None})

\* the address text parses once its 0x prefixes are stripped
GoodAddress(option) == ParsesAsAddress(TrimStartMatches0x(option[1]))

\* C23 as stated: Ok(None) when contract, user and abi are all absent,
\* Ok(Some(concern)) only when all three are present and parse, and an
\* InvalidConfig error whenever at least one but not all three are present.
C23_Original ==
    JustValidated =>
       /\ Given = 0 => pc # "failed" /\ merged[read.field] = None
       /\ (pc # "failed" /\ merged[read.field] # None) =>
             Given = 3 /\ GoodAddress(read.contract) /\ GoodAddress(read.user)
       /\ Given \in {1, 2} => LeftWithInvalidConfig

\* C23: a concern is all-or-none.  validate_concern returns Ok(None) when
\* contract, user and abi are all absent, Ok(Some(concern)) exactly when all
\* three are present and both addresses parse, and an error whenever at
\* least one but not all three are present: InvalidConfig for the first
\* absent one of contract, user, abi, unless an address given before it
\* fails to parse, in which case the error is that parse failure.
C23_AllOrNone ==
    JustValidated =>
       /\ Given = 0 => pc # "failed" /\ merged[read.field] = None
       /\ (pc # "failed" /\ merged[read.field] # None) <=>
             (Given = 3 /\ GoodAddress(read.contract) /\ GoodAddress(read.user))
       /\ Given \in {1, 2} =>
             /\ pc = "failed" /\ config.kind = "Err"
             /\ config.error =
                   IF /\ read.contract # None
                      /\ \/ ~GoodAddress(read.contract)
                         \/ read.user # None /\ ~GoodAddress(read.user)
                   THEN "Msg" ELSE "InvalidConfig"

\* only a contract is given on the command line and it is no address: the
\* error is the parse failure
C23_Witness ==
    /\ read.field = "cli_main_concern"
    /\ read.contract = Some(<<"z">>) /\ read.user = None /\ read.abi = None
    /\ pc = "failed"
    /\ config = Chained("failed to parse contract address")

\* Configuration::new has returned, combine_config having succeeded
NewReturned ==
    \/ pc \in {"loaded", "unconnected", "running"}
    \/ pc = "failed" /\ JustDetermined("delays")

\* C24: delay compatibility.  Every Configuration that Configuration::new
\* returns satisfies max_delay >= warn_delay, and when the merged max_delay
\* is smaller than the merged warn_delay Configuration::new returns an
\* InvalidConfig error instead of a configuration.
C24_DelayCompatibility ==
    /\ pc \in {"loaded", "unconnected", "running"} =>
          config.value.max_delay.secs >= config.value.warn_delay.secs
    /\ (NewReturned /\ merged.max_delay < merged.warn_delay) =>
          LeftWithInvalidConfig

\* C25: the dispatcher instantiates under the main concern.  Every
\* Configuration built by combine_config has a concerns[0], and the concern
\* of the instantiate request of Dispatcher::new, which is concerns[0],
\* equals config.main_concern.
C25_InstantiatesUnderMainConcern ==
    /\ HasConfiguration => Len(config.value.concerns) >= 1
    /\ pc = "running" =>
          /\ main_concern # None
          /\ InstantiateRequest(main_concern[1]).concern = config.value.main_concern

====
